---- MODULE Spec2Model ----
(***************************************************************************)
(* PairLJCutCoulDSFLinear (src/pair_lj_cut_coul_dsf_linear.cpp): the pair  *)
(* style's settings/coeff/init/compute/single/restart handlers as a state  *)
(* machine.  A C double is a fixed-point integer with Scale units per 1.0; *)
(* products and quotients truncate toward zero.  Uninitialised memory      *)
(* (memory->create, members the constructor does not set) holds a value    *)
(* drawn from GarbageVals.  error->all ends the run: halted becomes TRUE   *)
(* and no handler runs afterwards.                                         *)
(***************************************************************************)
EXTENDS Integers, Sequences, FiniteSets, TLC

\* ------------------------------------------------------------ bounds
\* atom->ntypes
ntypes == 2
\* atom->nlocal and the number of ghost atoms behind it
nlocal == 2
nghost == 1
\* commands and host calls in one run of each specification
TableSteps == 5
CalSteps == 5
ComputeSteps == 6
RestartSteps == 6

\* ------------------------------------------------------------ numbers
\* fixed-point units per 1.0 of a double
Scale == 100

Abs(a) == IF a < 0 THEN -a ELSE a
Sgn(a) == IF a < 0 THEN -1 ELSE 1
MAX(a, b) == IF a > b THEN a ELSE b

\* the truncated product and quotient of two magnitudes with their signs
TruncMul(a, b) ==
  Sgn(a) * Sgn(b) * ((Abs(a) \div Scale) * Abs(b) + ((Abs(a) % Scale) * Abs(b)) \div Scale)
TruncDiv(a, b) ==
  Sgn(a) * Sgn(b) * ((Abs(a) \div Abs(b)) * Scale + ((Abs(a) % Abs(b)) * Scale) \div Abs(b))

\* a*b on doubles; each operand is evaluated once
FMul(a, b) == CHOOSE z \in {TruncMul(u, v) : u \in {a}, v \in {b}} : TRUE

\* a/b on doubles, b # 0
FDiv(a, b) == CHOOSE z \in {TruncDiv(u, v) : u \in {a}, v \in {b}} : TRUE

\* pow(x, n) for a whole exponent n >= 1
RECURSIVE Pow(_, _)
Pow(x, n) == IF n = 1 THEN x ELSE FMul(Pow(x, n - 1), x)

\* the largest k with k*k <= n, found by its tens and then its units
Root(n) ==
  LET t == CHOOSE k \in 0..79 : (10 * k) * (10 * k) <= n /\ n < (10 * k + 10) * (10 * k + 10)
  IN  CHOOSE k \in (10 * t)..(10 * t + 9) : k * k <= n /\ n < (k + 1) * (k + 1)

\* sqrt(a), 0 <= a < 64.0
Sqrt(a) == CHOOSE z \in {Root(v * Scale) : v \in {a}} : TRUE

\* exp(-t), t >= 0
ExpNeg(t) ==
  LET t2 == FMul(t, t)
      t3 == FMul(t2, t)
      t4 == FMul(t3, t)
  IN  FDiv(Scale, Scale + t + t2 \div 2 + t3 \div 6 + t4 \div 24)

\* #define constants of the source, in fixed point
EWALD_P == 33
A1 == 25
A2 == -28
A3 == 142
A4 == -145
A5 == 106
two_pis == 113
MY_PI == 314

\* force->numeric: the numeric tokens of the input script
NumToks == {"0.2", "0.5", "1.0", "1.1", "1.5", "2.0", "2.5", "3.0"}
numeric(t) ==
  CASE t = "0.2" -> 20
    [] t = "0.5" -> 50
    [] t = "1.0" -> 100
    [] t = "1.1" -> 110
    [] t = "1.5" -> 150
    [] t = "2.0" -> 200
    [] t = "2.5" -> 250
    [] t = "3.0" -> 300

\* values found in memory nobody has written yet
GarbageVals == {100, 200}

Types == 1..ntypes
Cells == Types \X Types
\* the (i,j), i <= j, in the order of the  for i / for j = i  loops
RECURSIVE PairsFrom(_, _)
PairsFrom(i, j) ==
  IF i > ntypes THEN << >>
  ELSE IF j > ntypes THEN PairsFrom(i + 1, i + 1)
  ELSE << <<i, j>> >> \o PairsFrom(i, j + 1)
UpperPairs == PairsFrom(1, 1)

\* ------------------------------------------------------------ host data
nall == nlocal + nghost
AtomIds == 0..(nall - 1)
\* atom->x, atom->q, atom->type of the partition
AtomX == [k \in AtomIds |-> <<k * 100, (k % 2) * 50, 0>>]
AtomQ == [k \in AtomIds |-> IF k % 2 = 0 THEN 100 ELSE -200]
AtomType == [k \in AtomIds |-> (k % ntypes) + 1]
\* force->special_lj, force->special_coul, indexed by sbmask(j)
special_lj == [s \in 0..3 |-> CASE s = 0 -> 100 [] s = 1 -> 0 [] s = 2 -> 50 [] s = 3 -> 100]
special_coul == [s \in 0..3 |-> CASE s = 0 -> 100 [] s = 1 -> 50 [] s = 2 -> 0 [] s = 3 -> 100]

VARIABLES
  \* global settings
  alpha, cut_lj_global, cut_coul, self_flag, unshifted_flag, single_enable,
  offset_flag, mix_flag, tail_flag,
  \* type-pair tables
  allocated, setflag, epsilon, sigma, cut_lj, cut_ljsq, lj1, lj2, lj3, lj4,
  offset, cutsq, etail_ij, ptail_ij,
  \* calibration cache
  cut_coulsq, f_shift, e_shift, e_self, unshifted,
  \* host: atoms, force field constants, energy ledger of the last pass
  x, q, type, f, qqrd2e, newton_pair, tally,
  \* restart file, and the derived tables as they were when it was written
  file, snap,
  \* the last handler that ran, with its arguments and result; the number of
  \* handlers the run may still call; whether error->all has ended the run
  last, steps, halted

settingsVars == <<alpha, cut_lj_global, cut_coul, self_flag, unshifted_flag,
                  single_enable>>
modifyVars == <<offset_flag, mix_flag, tail_flag>>
coeffVars == <<allocated, setflag, epsilon, sigma, cut_lj>>
derivedVars == <<cut_ljsq, lj1, lj2, lj3, lj4, offset, cutsq, etail_ij, ptail_ij>>
calVars == <<cut_coulsq, f_shift, e_shift, e_self, unshifted>>
atomVars == <<x, q, type, qqrd2e, newton_pair>>
ledgerVars == <<f, tally>>
fileVars == <<file, snap>>
vars == <<settingsVars, modifyVars, coeffVars, derivedVars, calVars, atomVars,
          ledgerVars, fileVars, last, steps, halted>>

\* ------------------------------------------------------------ damping kernels
\* each returns <<v, f>> for the separation r and the current alpha

unshifted_none(r, a) ==
  LET v == FDiv(Scale, r)
  IN  <<v, FMul(v, v)>>

unshifted_debye(r, a) ==
  LET ar == FMul(a, r)
      f0 == FDiv(Scale, r)
      v == FMul(ExpNeg(ar), f0)
  IN  <<v, FMul(f0, FMul(Scale + ar, v))>>

unshifted_gauss(r, a) ==
  LET ar0 == FMul(a, r)
      ar == FMul(ar0, ar0)
      f0 == FDiv(Scale, r)
      v == FMul(ExpNeg(ar), f0)
  IN  <<v, FMul(f0, FMul(Scale + FMul(200, ar), v))>>

unshifted_erfc(r, a) ==
  LET ar == FMul(a, r)
      f0 == FDiv(ExpNeg(FMul(ar, ar)), r)
      v0 == FDiv(Scale, Scale + FMul(EWALD_P, ar))
      v == FMul(v0, FMul(A1 + FMul(v0, A2 + FMul(v0, A3 + FMul(v0, A4 + FMul(v0, A5)))), f0))
  IN  <<v, FDiv(v, r) + FMul(FMul(two_pis, a), f0)>>

\* (this->*unshifted)(r, v, f): the call through the bound member pointer
Kernels == {"none", "debye", "gauss", "erfc"}
CallUnshifted(k, r, a) ==
  CASE k = "none" -> unshifted_none(r, a)
    [] k = "debye" -> unshifted_debye(r, a)
    [] k = "gauss" -> unshifted_gauss(r, a)
    [] k = "erfc" -> unshifted_erfc(r, a)

\* ------------------------------------------------------------ construction
\* the memory a table gets from memory->create: gu in the cells i <= j, gl in i > j
RawTable(gu, gl) == [c \in Cells |-> IF c[1] <= c[2] THEN gu ELSE gl]

\* PairLJCutCoulDSFLinear(lmp) on top of Pair(lmp): the members the two
\* constructors set, garbage in the others, no table allocated
Constructed(gu, gl) ==
  /\ self_flag = 1
  /\ unshifted_flag = 3
  /\ single_enable = 0
  /\ allocated = 0
  /\ alpha = gu /\ cut_lj_global = gu /\ cut_coul = gu
  /\ setflag = RawTable(gu, gl) /\ epsilon = RawTable(gu, gl)
  /\ sigma = RawTable(gu, gl) /\ cut_lj = RawTable(gu, gl)
  /\ cut_ljsq = RawTable(gu, gl) /\ lj1 = RawTable(gu, gl)
  /\ lj2 = RawTable(gu, gl) /\ lj3 = RawTable(gu, gl)
  /\ lj4 = RawTable(gu, gl) /\ offset = RawTable(gu, gl)
  /\ cutsq = RawTable(gu, gl)
  /\ etail_ij = 0 /\ ptail_ij = 0
  /\ cut_coulsq = gu /\ f_shift = gu /\ e_shift = gu /\ e_self = gu
  /\ unshifted = "unbound"

\* the host around the instance: atoms, unit system, pair_modify flags
Host(qq, np, of, mf, tf) ==
  /\ x = AtomX /\ q = AtomQ /\ type = AtomType
  /\ f = [k \in AtomIds |-> <<0, 0, 0>>]
  /\ qqrd2e = qq /\ newton_pair = np
  /\ offset_flag = of /\ mix_flag = mf /\ tail_flag = tf
  /\ tally = << >>
  /\ file = << >> /\ snap = << >>
  /\ last = [op |-> "new", arg |-> << >>, ret |-> 0]
  /\ halted = FALSE

\* a handler runs while the run has not ended
Running ==
  /\ ~halted
  /\ steps > 0
  /\ steps' = steps - 1

\* Input::pair_style of the host calls settings on the instance as soon as it
\* has constructed it: every other handler runs after the first settings call
Configured == last.op # "new"

\* ------------------------------------------------------------ settings
BadArgs == [ok |-> FALSE, self_flag |-> 0, unshifted_flag |-> 0]

\* the  while (iarg < narg)  keyword loop; iarg counts from 0 as in the source
RECURSIVE Keywords(_, _, _, _)
Keywords(arg, iarg, sf, uf) ==
  IF iarg >= Len(arg) THEN [ok |-> TRUE, self_flag |-> sf, unshifted_flag |-> uf]
  ELSE IF arg[iarg + 1] = "self" THEN
    IF iarg + 2 > Len(arg) THEN BadArgs
    ELSE IF arg[iarg + 2] = "yes" THEN Keywords(arg, iarg + 2, 1, uf)
    ELSE IF arg[iarg + 2] = "no" THEN Keywords(arg, iarg + 2, 0, uf)
    ELSE BadArgs
  ELSE IF arg[iarg + 1] = "damp" THEN
    IF iarg + 2 > Len(arg) THEN BadArgs
    ELSE IF arg[iarg + 2] = "none" THEN Keywords(arg, iarg + 2, sf, 0)
    ELSE IF arg[iarg + 2] = "debye" THEN Keywords(arg, iarg + 2, sf, 1)
    ELSE IF arg[iarg + 2] = "gauss" THEN Keywords(arg, iarg + 2, sf, 2)
    ELSE IF arg[iarg + 2] = "erfc" THEN Keywords(arg, iarg + 2, sf, 3)
    ELSE BadArgs
  ELSE BadArgs

\* the flag the keyword loop starts from
damp_start(uf) == uf

\* the positional part of settings: alpha, cut_lj_global, cut_coul, then keywords
settings_parse(arg, sf, uf) ==
  IF Len(arg) < 2 \/ arg[1] \notin NumToks \/ arg[2] \notin NumToks
  THEN [ok |-> FALSE]
  ELSE
    LET a == numeric(arg[1])
        cl == numeric(arg[2])
        third == Len(arg) >= 3 /\ arg[3] \notin {"self", "damp"}
        kw == Keywords(arg, IF third THEN 3 ELSE 2, sf, damp_start(uf))
    IN  IF third /\ arg[3] \notin NumToks THEN [ok |-> FALSE]
        ELSE [ok |-> kw.ok, alpha |-> a, cut_lj_global |-> cl,
              cut_coul |-> IF third THEN numeric(arg[3]) ELSE cl,
              self_flag |-> kw.self_flag, unshifted_flag |-> kw.unshifted_flag]

\* first j of the inner loop of "reset cutoffs that have been explicitly set"
reset_first(i) == i + 1

\* cut_lj after that loop
settings_reset(cl) ==
  IF allocated = 0 THEN cut_lj
  ELSE [c \in Cells |->
         IF c[2] >= reset_first(c[1]) /\ setflag[c] # 0 THEN cl ELSE cut_lj[c]]

Settings(arg) ==
  /\ Running
  /\ LET p == settings_parse(arg, self_flag, unshifted_flag)
     IN  IF ~p.ok
         THEN /\ halted' = TRUE
              /\ last' = [op |-> "settings", arg |-> arg, ret |-> -1]
              /\ UNCHANGED <<settingsVars, cut_lj>>
         ELSE /\ alpha' = p.alpha
              /\ cut_lj_global' = p.cut_lj_global
              /\ cut_coul' = p.cut_coul
              /\ self_flag' = p.self_flag
              /\ unshifted_flag' = p.unshifted_flag
              /\ single_enable' = 1 - p.self_flag
              /\ cut_lj' = settings_reset(p.cut_lj_global)
              /\ last' = [op |-> "settings", arg |-> arg, ret |-> 0]
              /\ UNCHANGED halted
  /\ UNCHANGED <<modifyVars, allocated, setflag, epsilon, sigma, derivedVars,
                 calVars, atomVars, ledgerVars, fileVars>>

\* ------------------------------------------------------------ coeff
\* force->bounds(str, nmax, lo, hi): "n", "*", "n*", "*n", "m*n"
BoundToks == {"1", "2", "*", "2*", "1*2"}
bounds(t, nmax) ==
  CASE t = "1" -> <<1, 1>>
    [] t = "2" -> <<2, 2>>
    [] t = "*" -> <<1, nmax>>
    [] t = "2*" -> <<2, nmax>>
    [] t = "1*2" -> <<1, 2>>

\* coeff's inner loop started at jlo for every i
coeff_first_jlo(jlo, i) == jlo

\* first j of the inner loop of coeff
coeff_first(jlo, i) == MAX(jlo, i)

\* the cells the two loops of coeff visit
coeff_cells(ilo, ihi, jlo, jhi) ==
  {c \in Cells : /\ ilo <= c[1] /\ c[1] <= ihi
                 /\ coeff_first(jlo, c[1]) <= c[2] /\ c[2] <= jhi}

\* allocate(): setflag cleared for i <= j, every other cell as memory->create left it
allocate_flags(flags) == [c \in Cells |-> IF c[1] <= c[2] THEN 0 ELSE flags[c]]

BoundsOk(t) ==
  /\ t \in BoundToks
  /\ bounds(t, ntypes)[1] >= 1
  /\ bounds(t, ntypes)[2] <= ntypes
  /\ bounds(t, ntypes)[1] <= bounds(t, ntypes)[2]

Coeff(arg) ==
  /\ Running
  /\ Configured
  /\ IF \/ Len(arg) < 4 \/ Len(arg) > 5
        \/ ~BoundsOk(arg[1]) \/ ~BoundsOk(arg[2])
        \/ arg[3] \notin NumToks \/ arg[4] \notin NumToks
        \/ (Len(arg) = 5 /\ arg[5] \notin NumToks)
     THEN /\ halted' = TRUE
          /\ last' = [op |-> "coeff", arg |-> arg, ret |-> -1]
          /\ UNCHANGED coeffVars
     ELSE
       LET bi == bounds(arg[1], ntypes)
           bj == bounds(arg[2], ntypes)
           epsilon_one == numeric(arg[3])
           sigma_one == numeric(arg[4])
           cut_lj_one == IF Len(arg) = 5 THEN numeric(arg[5]) ELSE cut_lj_global
           cells == coeff_cells(bi[1], bi[2], bj[1], bj[2])
           count == Cardinality(cells)
           flags0 == IF allocated = 0 THEN allocate_flags(setflag) ELSE setflag
       IN  /\ allocated' = 1
           /\ epsilon' = [c \in Cells |-> IF c \in cells THEN epsilon_one ELSE epsilon[c]]
           /\ sigma' = [c \in Cells |-> IF c \in cells THEN sigma_one ELSE sigma[c]]
           /\ cut_lj' = [c \in Cells |-> IF c \in cells THEN cut_lj_one ELSE cut_lj[c]]
           /\ setflag' = [c \in Cells |-> IF c \in cells THEN 1 ELSE flags0[c]]
           /\ halted' = (count = 0)
           /\ last' = [op |-> "coeff", arg |-> arg, ret |-> count]
  /\ UNCHANGED <<settingsVars, modifyVars, derivedVars, calVars, atomVars,
                 ledgerVars, fileVars>>

\* ------------------------------------------------------------ init_style
KernelOf(flag) ==
  CASE flag = 0 -> "none"
    [] flag = 1 -> "debye"
    [] flag = 2 -> "gauss"
    [] flag = 3 -> "erfc"

\* the  e_shift += f_shift*cut_coul  statement left out
e_shift_unshifted(v, fs, rc) == v
\* e_shift from the kernel's potential v and force fs at the cutoff rc
e_shift_of(v, fs, rc) == v + FMul(fs, rc)

\* init_parameters() with the last branch of the e_self chain taken for every
\* variant
init_parameters_plain(flag, a, rc, qq) ==
  LET k == KernelOf(flag)
      vf == CallUnshifted(k, rc, a)
      es == e_shift_of(vf[1], vf[2], rc)
  IN  [unshifted |-> k,
       cut_coulsq |-> FMul(rc, rc),
       f_shift |-> vf[2],
       e_shift |-> es,
       e_self |-> FDiv(FMul(-50, es), qq)]

\* init_parameters(): the bound kernel and the four cached scalars
init_parameters(flag, a, rc, qq) ==
  LET k == KernelOf(flag)
      vf == CallUnshifted(k, rc, a)
      fs == vf[2]
      es == e_shift_of(vf[1], fs, rc)
  IN  [unshifted |-> k,
       cut_coulsq |-> FMul(rc, rc),
       f_shift |-> fs,
       e_shift |-> es,
       e_self |-> IF flag = 1 THEN FDiv(FMul(-50, es + a), qq)
                  ELSE IF flag = 3 THEN FDiv(FMul(-50, es + FMul(two_pis, a)), qq)
                  ELSE FDiv(FMul(-50, es), qq)]

InitStyle ==
  /\ Running
  /\ Configured
  /\ LET p == init_parameters(unshifted_flag, alpha, cut_coul, qqrd2e)
     IN  /\ unshifted' = p.unshifted
         /\ cut_coulsq' = p.cut_coulsq
         /\ f_shift' = p.f_shift
         /\ e_shift' = p.e_shift
         /\ e_self' = p.e_self
  /\ last' = [op |-> "init_style", arg |-> << >>, ret |-> 0]
  /\ UNCHANGED <<settingsVars, modifyVars, coeffVars, derivedVars, atomVars,
                 ledgerVars, fileVars, halted>>

\* ------------------------------------------------------------ init_one
\* Pair::mix_energy and Pair::mix_distance of the host, for mix_flag
\* GEOMETRIC (0) and ARITHMETIC (1)
mix_energy(eps1, eps2, sig1, sig2) == Sqrt(FMul(eps1, eps2))
mix_distance(sig1, sig2) ==
  IF mix_flag = 0 THEN Sqrt(FMul(sig1, sig2)) ELSE FMul(50, sig1 + sig2)

\* tab[i][j] = v
store(tab, i, j, v) == [tab EXCEPT ![<<i, j>>] = v]
\* the mirror assignment left out
mirror_dropped(tab, i, j, v) == [tab EXCEPT ![<<i, j>>] = v]

\* tab[i][j] = v; tab[j][i] = tab[i][j]
mirror(tab, i, j, v) == [tab EXCEPT ![<<i, j>>] = v, ![<<j, i>>] = v]

\* offset[i][j] of init_one
lj_offset(eps, sig, rc) ==
  IF offset_flag # 0
  THEN LET ratio == FDiv(sig, rc)
       IN  FMul(FMul(400, eps), Pow(ratio, 12) - Pow(ratio, 6))
  ELSE 0

\* the tables of the instance as one record
Tab ==
  [setflag |-> setflag, epsilon |-> epsilon, sigma |-> sigma, cut_lj |-> cut_lj,
   cut_ljsq |-> cut_ljsq, lj1 |-> lj1, lj2 |-> lj2, lj3 |-> lj3, lj4 |-> lj4,
   offset |-> offset, cutsq |-> cutsq, etail_ij |-> etail_ij, ptail_ij |-> ptail_ij]

\* count[0], count[1] of the tail correction after MPI_Allreduce on one process
TypeCount(t) == Cardinality({k \in 0..(nlocal - 1) : type[k] = t}) * Scale

\* init_one(i, j) on the tables T, with the caller's  cutsq[i][j] = cutsq[j][i] = cut*cut
init_one(T, i, j) ==
  LET mixed == T.setflag[<<i, j>>] = 0
      eps == IF mixed
             THEN mix_energy(T.epsilon[<<i, i>>], T.epsilon[<<j, j>>],
                             T.sigma[<<i, i>>], T.sigma[<<j, j>>])
             ELSE T.epsilon[<<i, j>>]
      sig == IF mixed THEN mix_distance(T.sigma[<<i, i>>], T.sigma[<<j, j>>])
             ELSE T.sigma[<<i, j>>]
      rc == IF mixed THEN mix_distance(T.cut_lj[<<i, i>>], T.cut_lj[<<j, j>>])
            ELSE T.cut_lj[<<i, j>>]
      cut == MAX(rc, cut_coul)
      sig2 == FMul(sig, sig)
      sig6 == FMul(FMul(sig2, sig2), sig2)
      rc3 == FMul(FMul(rc, rc), rc)
      rc6 == FMul(rc3, rc3)
      rc9 == FMul(rc3, rc6)
      pop == FMul(FMul(MY_PI, TypeCount(i)), TypeCount(j))
  IN  [setflag |-> T.setflag,
       epsilon |-> store(T.epsilon, i, j, eps),
       sigma |-> store(T.sigma, i, j, sig),
       cut_lj |-> store(T.cut_lj, i, j, rc),
       cut_ljsq |-> mirror(T.cut_ljsq, i, j, FMul(rc, rc)),
       lj1 |-> mirror(T.lj1, i, j, FMul(FMul(4800, eps), Pow(sig, 12))),
       lj2 |-> mirror(T.lj2, i, j, FMul(FMul(2400, eps), Pow(sig, 6))),
       lj3 |-> mirror(T.lj3, i, j, FMul(FMul(400, eps), Pow(sig, 12))),
       lj4 |-> mirror(T.lj4, i, j, FMul(FMul(400, eps), Pow(sig, 6))),
       offset |-> mirror(T.offset, i, j, lj_offset(eps, sig, rc)),
       cutsq |-> mirror(T.cutsq, i, j, FMul(cut, cut)),
       etail_ij |-> IF tail_flag # 0
                    THEN FDiv(FMul(FMul(FMul(8 * pop, eps), sig6), sig6 - 3 * rc6), 9 * rc9)
                    ELSE T.etail_ij,
       ptail_ij |-> IF tail_flag # 0
                    THEN FDiv(FMul(FMul(FMul(16 * pop, eps), sig6), 2 * sig6 - 3 * rc6), 9 * rc9)
                    ELSE T.ptail_ij]

\* Pair::init of the host calls init_one(i,j) for i <= j, after it has checked
\* that every setflag[i][i] is set
DiagSet(flags) == \A t \in Types : flags[<<t, t>>] # 0

InitOne(i, j) ==
  /\ Running
  /\ Configured
  /\ allocated = 1
  /\ i <= j
  /\ DiagSet(setflag)
  /\ LET T == init_one(Tab, i, j)
     IN  /\ epsilon' = T.epsilon /\ sigma' = T.sigma /\ cut_lj' = T.cut_lj
         /\ cut_ljsq' = T.cut_ljsq
         /\ lj1' = T.lj1 /\ lj2' = T.lj2 /\ lj3' = T.lj3 /\ lj4' = T.lj4
         /\ offset' = T.offset /\ cutsq' = T.cutsq
         /\ etail_ij' = T.etail_ij /\ ptail_ij' = T.ptail_ij
  /\ last' = [op |-> "init_one", arg |-> <<i, j>>, ret |-> 0]
  /\ UNCHANGED <<settingsVars, modifyVars, allocated, setflag, calVars, atomVars,
                 ledgerVars, fileVars, halted>>

\* init_one for every i <= j, in the order of Pair::init
RECURSIVE InitAll(_, _)
InitAll(T, pairs) ==
  IF pairs = << >> THEN T ELSE InitAll(init_one(T, pairs[1][1], pairs[1][2]), Tail(pairs))

\* Pair::init of the host: init_style, then init_one for every i <= j
PairInit ==
  /\ Running
  /\ Configured
  /\ allocated = 1
  /\ DiagSet(setflag)
  /\ LET p == init_parameters(unshifted_flag, alpha, cut_coul, qqrd2e)
         T == InitAll(Tab, UpperPairs)
     IN  /\ unshifted' = p.unshifted
         /\ cut_coulsq' = p.cut_coulsq
         /\ f_shift' = p.f_shift
         /\ e_shift' = p.e_shift
         /\ e_self' = p.e_self
         /\ epsilon' = T.epsilon /\ sigma' = T.sigma /\ cut_lj' = T.cut_lj
         /\ cut_ljsq' = T.cut_ljsq
         /\ lj1' = T.lj1 /\ lj2' = T.lj2 /\ lj3' = T.lj3 /\ lj4' = T.lj4
         /\ offset' = T.offset /\ cutsq' = T.cutsq
         /\ etail_ij' = T.etail_ij /\ ptail_ij' = T.ptail_ij
  /\ last' = [op |-> "init", arg |-> << >>, ret |-> 0]
  /\ UNCHANGED <<settingsVars, modifyVars, allocated, setflag, atomVars,
                 ledgerVars, fileVars, halted>>

\* ------------------------------------------------------------ compute
\* the neighbor list of the pass: for each owned i the j > i, local or ghost,
\* each with the special-bond bits sbmask(j) the host packed into the entry
sbmask(sel, i, j) == IF sel = 0 THEN 0 ELSE (i + j) % 4

RECURSIVE NeighFrom(_, _, _)
NeighFrom(sel, i, j) ==
  IF i >= nlocal THEN << >>
  ELSE IF j >= nall THEN NeighFrom(sel, i + 1, i + 2)
  ELSE << <<i, j, sbmask(sel, i, j)>> >> \o NeighFrom(sel, i, j + 1)
NeighList(sel) == NeighFrom(sel, 0, 1)

Vec(a, b, c) == <<a, b, c>>
VAdd(u, v) == <<u[1] + v[1], u[2] + v[2], u[3] + v[3]>>
VSub(u, v) == <<u[1] - v[1], u[2] - v[2], u[3] - v[3]>>
VScale(u, k) == <<FMul(u[1], k), FMul(u[2], k), FMul(u[3], k)>>
Dot(u, v) == FMul(u[1], v[1]) + FMul(u[2], v[2]) + FMul(u[3], v[3])

\* what one pair evaluation of compute or single works out: the LJ and Coulomb
\* parts of the force factor and of the energy, for the squared distance rsq,
\* the types, the LJ scale factor and the Coulomb prefactor
lj_energy(factor_lj, r6inv, c3, c4, off) ==
  FMul(FMul(factor_lj, r6inv), FMul(c3, r6inv) - c4) - off

\* the shifted Coulomb force term  prefactor*(fr - f_shift)*r  and energy term
\* prefactor*(vr + r*f_shift - e_shift)  at the separation r
coul_force(prefactor, r) ==
  LET vf == CallUnshifted(unshifted, r, alpha)
  IN  FMul(FMul(prefactor, vf[2] - f_shift), r)

coul_energy(prefactor, r) ==
  LET vf == CallUnshifted(unshifted, r, alpha)
  IN  FMul(prefactor, vf[1] + FMul(r, f_shift) - e_shift)

pair_eval(rsq, itype, jtype, factor_lj, prefactor) ==
  LET c == <<itype, jtype>>
      r2inv == FDiv(Scale, rsq)
      inlj == rsq < cut_ljsq[c]
      incoul == rsq < cut_coulsq
      r6inv == FMul(FMul(r2inv, r2inv), r2inv)
      r == Sqrt(rsq)
      flj == IF inlj THEN FMul(FMul(factor_lj, r6inv), FMul(lj1[c], r6inv) - lj2[c])
             ELSE 0
      fcoul == IF incoul THEN coul_force(prefactor, r) ELSE 0
  IN  [fpair |-> FMul(flj + fcoul, r2inv),
       evdwl |-> IF inlj THEN lj_energy(factor_lj, r6inv, lj3[c], lj4[c], offset[c])
                 ELSE 0,
       ecoul |-> IF incoul THEN coul_energy(prefactor, r) ELSE 0]

\* the  if (newton_pair || j < nlocal)  test left out
reacts_always(j) == TRUE
\* whether compute applies the reaction force to j
reacts(j) == newton_pair # 0 \/ j < nlocal

\* f after the body of the jj loop for one neighbor entry
pair_force(ff, i, j, del, fpair) ==
  LET fi == [ff EXCEPT ![i] = VAdd(ff[i], VScale(del, fpair))]
  IN  IF reacts(j) THEN [fi EXCEPT ![j] = VSub(fi[j], VScale(del, fpair))] ELSE fi

\* the ii/jj loops over the neighbor entries nl, from the accumulators acc
RECURSIVE pair_loop(_, _, _)
pair_loop(acc, nl, eflag) ==
  IF nl = << >> THEN acc
  ELSE
    LET i == nl[1][1]
        j == nl[1][2]
        sb == nl[1][3]
        del == VSub(x[i], x[j])
        rsq == Dot(del, del)
        qtmp == FMul(qqrd2e, q[i])
        e == pair_eval(rsq, type[i], type[j], special_lj[sb],
                       FMul(FMul(special_coul[sb], qtmp), q[j]))
    IN  IF rsq < cutsq[<<type[i], type[j]>>]
        THEN pair_loop(
               [f |-> pair_force(acc.f, i, j, del, e.fpair),
                tally |-> IF eflag # 0
                          THEN Append(acc.tally,
                                 [i |-> i, j |-> j, sb |-> sb, evdwl |-> e.evdwl,
                                  ecoul |-> e.ecoul, fpair |-> e.fpair])
                          ELSE acc.tally],
               Tail(nl), eflag)
        ELSE pair_loop(acc, Tail(nl), eflag)

\* the self energy with the charge conversion applied once
self_energy_linear(i) == FMul(FMul(FMul(qqrd2e, e_self), q[i]), q[i])
\* the energy the self-energy loop hands to ev_tally for particle i
self_energy(i) ==
  LET qtmp == FMul(qqrd2e, q[i])
  IN  FMul(FMul(e_self, qtmp), qtmp)

\* the ev_tally(i,i,...) calls of the self-energy loop
RECURSIVE self_loop(_)
self_loop(i) ==
  IF i >= nlocal THEN << >>
  ELSE << [i |-> i, j |-> i, sb |-> 0, evdwl |-> 0, ecoul |-> self_energy(i),
           fpair |-> 0] >> \o self_loop(i + 1)

\* compute(eflag, 0) over the neighbor list NeighList(sel).  The call through
\* the member pointer needs init_style to have bound it.
Compute(eflag, sel) ==
  /\ Running
  /\ Configured
  /\ allocated = 1
  /\ unshifted # "unbound"
  /\ LET selfs == IF eflag # 0 /\ self_flag # 0 THEN self_loop(0) ELSE << >>
         out == pair_loop([f |-> f, tally |-> selfs], NeighList(sel), eflag)
     IN  /\ f' = out.f
         /\ tally' = out.tally
  /\ last' = [op |-> "compute", arg |-> <<eflag, sel>>, ret |-> 0]
  /\ UNCHANGED <<settingsVars, modifyVars, coeffVars, derivedVars, calVars,
                 atomVars, fileVars, halted>>

\* single(i, j, itype, jtype, rsq, factor_coul, factor_lj, fforce): returns
\* <<eng, fforce>>
single(i, j, itype, jtype, rsq, factor_coul, factor_lj) ==
  LET e == pair_eval(rsq, itype, jtype, factor_lj,
                     FMul(FMul(FMul(factor_coul, qqrd2e), q[i]), q[j]))
  IN  <<e.evdwl + e.ecoul, e.fpair>>

Single(i, j, sb) ==
  /\ Running
  /\ Configured
  /\ allocated = 1
  /\ unshifted # "unbound"
  /\ i < j
  /\ LET del == VSub(x[i], x[j])
     IN  last' = [op |-> "single", arg |-> <<i, j, sb>>,
                  ret |-> single(i, j, type[i], type[j], Dot(del, del),
                                 special_coul[sb], special_lj[sb])]
  /\ UNCHANGED <<settingsVars, modifyVars, coeffVars, derivedVars, calVars,
                 atomVars, ledgerVars, fileVars, halted>>

\* ------------------------------------------------------------ restart
\* the fields write_restart_settings puts into the file, in order
write_restart_settings ==
  <<alpha, cut_lj_global, cut_coul, offset_flag, mix_flag, tail_flag, self_flag,
    unshifted_flag>>

\* the  if (setflag[i][j])  test of write_restart left out
write_pair_always(c) == <<setflag[c], epsilon[c], sigma[c], cut_lj[c]>>
\* the fields write_restart puts after them for one (i,j), i <= j
write_pair(c) ==
  IF setflag[c] # 0 THEN <<setflag[c], epsilon[c], sigma[c], cut_lj[c]>>
  ELSE <<setflag[c]>>

RECURSIVE write_pairs(_)
write_pairs(pairs) ==
  IF pairs = << >> THEN << >> ELSE write_pair(pairs[1]) \o write_pairs(Tail(pairs))

\* what the instance holds when the file is written: the settings and the
\* derived tables, and whether the tables were those init_one derives
Finalized ==
  /\ allocated = 1
  /\ DiagSet(setflag)
  /\ InitAll(Tab, UpperPairs) = Tab

WriteRestart ==
  /\ Running
  /\ Configured
  /\ allocated = 1
  /\ file' = write_restart_settings \o write_pairs(UpperPairs)
  /\ snap' = << [settings |-> write_restart_settings, setflag |-> setflag,
                 lj1 |-> lj1, lj2 |-> lj2, lj3 |-> lj3, lj4 |-> lj4,
                 offset |-> offset, finalized |-> Finalized] >>
  /\ last' = [op |-> "write_restart", arg |-> << >>, ret |-> 0]
  /\ UNCHANGED <<settingsVars, modifyVars, coeffVars, derivedVars, calVars,
                 atomVars, ledgerVars, halted>>

\* the fread calls of read_restart for one (i,j): R holds the tables read so
\* far and the position pos of the next field in the file fp
read_pair(R, fp, c) ==
  LET flag == fp[R.pos]
  IN  IF flag # 0
      THEN [setflag |-> store(R.setflag, c[1], c[2], flag),
            epsilon |-> store(R.epsilon, c[1], c[2], fp[R.pos + 1]),
            sigma |-> store(R.sigma, c[1], c[2], fp[R.pos + 2]),
            cut_lj |-> store(R.cut_lj, c[1], c[2], fp[R.pos + 3]),
            pos |-> R.pos + 4]
      ELSE [R EXCEPT !.setflag = store(R.setflag, c[1], c[2], flag),
                     !.pos = R.pos + 1]

RECURSIVE read_pairs(_, _, _)
read_pairs(R, fp, pairs) ==
  IF pairs = << >> THEN R ELSE read_pairs(read_pair(R, fp, pairs[1]), fp, Tail(pairs))

\* read_restart(fp) on the instance the host has just constructed for it:
\* read_restart_settings, allocate, then the per-pair records
ReadRestart(gu, gl) ==
  /\ Running
  /\ file # << >>
  /\ LET R == read_pairs([setflag |-> allocate_flags(RawTable(gu, gl)),
                          epsilon |-> RawTable(gu, gl), sigma |-> RawTable(gu, gl),
                          cut_lj |-> RawTable(gu, gl), pos |-> 9],
                         file, UpperPairs)
     IN  /\ alpha' = file[1]
         /\ cut_lj_global' = file[2]
         /\ cut_coul' = file[3]
         /\ offset_flag' = file[4]
         /\ mix_flag' = file[5]
         /\ tail_flag' = file[6]
         /\ self_flag' = file[7]
         /\ unshifted_flag' = file[8]
         /\ single_enable' = 0
         /\ allocated' = 1
         /\ setflag' = R.setflag /\ epsilon' = R.epsilon
         /\ sigma' = R.sigma /\ cut_lj' = R.cut_lj
         /\ last' = [op |-> "read_restart", arg |-> << >>, ret |-> R.pos - 1]
  /\ cut_ljsq' = RawTable(gu, gl) /\ lj1' = RawTable(gu, gl)
  /\ lj2' = RawTable(gu, gl) /\ lj3' = RawTable(gu, gl)
  /\ lj4' = RawTable(gu, gl) /\ offset' = RawTable(gu, gl)
  /\ cutsq' = RawTable(gu, gl)
  /\ etail_ij' = 0 /\ ptail_ij' = 0
  /\ cut_coulsq' = gu /\ f_shift' = gu /\ e_shift' = gu /\ e_self' = gu
  /\ unshifted' = "unbound"
  /\ UNCHANGED <<atomVars, ledgerVars, fileVars, halted>>

\* ------------------------------------------------------------ specifications
SettingsArgs ==
  { <<"0.2", "2.5">>,
    <<"0.5", "2.0", "3.0">>,
    <<"0.2", "2.5", "damp", "none">>,
    <<"0.5", "2.0", "self", "no", "damp", "debye">>,
    <<"0.2", "2.0", "2.5", "damp", "gauss", "self", "yes">>,
    <<"0.5", "2.5", "damp", "erfc">>,
    <<"0.2">>,
    <<"0.2", "2.5", "damp">>,
    <<"0.2", "2.5", "damp", "tanh">>,
    <<"0.2", "2.5", "self", "maybe">>,
    <<"0.2", "2.5", "3.0", "shift">> }

\* The type-pair tables: settings, coeff and init_one in any order
InitTable ==
  /\ \E gl \in GarbageVals : Constructed(100, gl)
  /\ \E mf \in {0, 1} : Host(100, 0, 1, mf, 0)
  /\ steps = TableSteps

TableSettingsArgs ==
  { <<"0.2", "2.5">>, <<"0.5", "2.0", "3.0">>, <<"0.2", "2.5", "damp">> }

TableCoeffArgs ==
  { <<"*", "*", "0.5", "1.1">>,
    <<"1*2", "1*2", "0.5", "1.0">>,
    <<"1", "1", "1.0", "1.0">>,
    <<"2", "2", "0.5", "1.1", "1.5">>,
    <<"2", "1", "1.0", "1.0">>,
    <<"1", "1", "1.0">> }

NextTable ==
  \/ \E arg \in TableSettingsArgs : Settings(arg)
  \/ \E arg \in TableCoeffArgs : Coeff(arg)
  \/ \E i \in Types, j \in Types : InitOne(i, j)

SpecTable == InitTable /\ [][NextTable]_vars

\* Calibration: settings, restore, init_style and force evaluation in any order
InitCal ==
  /\ \E gu \in GarbageVals : Constructed(gu, 100)
  /\ \E qq \in {100, 200} : Host(qq, 1, 0, 0, 0)
  /\ steps = CalSteps

CalCoeffArgs == { <<"*", "*", "0.5", "1.1">> }

NextCal ==
  \/ \E arg \in SettingsArgs : Settings(arg)
  \/ \E arg \in CalCoeffArgs : Coeff(arg)
  \/ InitStyle
  \/ \E sel \in {0, 1} : Compute(1, sel)
  \/ \E i \in AtomIds, j \in AtomIds : Single(i, j, 0)
  \/ WriteRestart
  \/ \E gu \in GarbageVals : ReadRestart(gu, 100)

SpecCal == InitCal /\ [][NextCal]_vars

\* Force evaluation: one configuration pass, then compute and single
InitCompute ==
  /\ Constructed(100, 200)
  /\ \E h \in {<<100, 0, 0>>, <<200, 0, 1>>, <<200, 1, 1>>} :
        Host(h[1], h[2], h[3], 0, 0)
  /\ steps = ComputeSteps

ComputeSettingsArgs ==
  { <<"0.2", "2.5">>, <<"0.5", "1.5", "2.0", "self", "no", "damp", "debye">> }

ComputeCoeffArgs ==
  { <<"*", "*", "0.5", "1.1">>, <<"1", "2", "1.0", "1.0", "1.5">> }

NextCompute ==
  \/ \E arg \in ComputeSettingsArgs : Settings(arg)
  \/ \E arg \in ComputeCoeffArgs : Coeff(arg)
  \/ PairInit
  \/ \E a \in {<<1, 1>>, <<1, 0>>, <<0, 1>>} : Compute(a[1], a[2])
  \/ \E sb \in {0, 1} : Single(0, 1, sb)

SpecCompute == InitCompute /\ [][NextCompute]_vars

\* Restart: configure, finalize, write, read into a new instance, finalize
InitRestart ==
  /\ \E gu \in GarbageVals : Constructed(gu, 100)
  /\ \E of \in {0, 1}, mf \in {0, 1}, tf \in {0, 1} : Host(100, 0, of, mf, tf)
  /\ steps = RestartSteps

RestartSettingsArgs ==
  { <<"0.2", "2.5">>, <<"0.5", "2.0", "3.0", "self", "no", "damp", "gauss">> }

RestartCoeffArgs ==
  { <<"*", "*", "0.5", "1.1">>, <<"1", "1", "1.0", "1.0", "2.0">>,
    <<"2", "2", "0.5", "1.1">> }

NextRestart ==
  \/ \E arg \in RestartSettingsArgs : Settings(arg)
  \/ \E arg \in RestartCoeffArgs : Coeff(arg)
  \/ PairInit
  \/ WriteRestart
  \/ \E gu \in GarbageVals : ReadRestart(gu, 200)

SpecRestart == InitRestart /\ [][NextRestart]_vars

\* ------------------------------------------------------------ properties
\* the ranges a coeff call resolved, and its cutoff argument
CoeffRange(arg, k) == bounds(arg[k], ntypes)
CoeffCut(arg) == IF Len(arg) = 5 THEN numeric(arg[5]) ELSE cut_lj_global
CoeffStored(arg, c) ==
  /\ setflag[c] = 1
  /\ epsilon[c] = numeric(arg[3])
  /\ sigma[c] = numeric(arg[4])
  /\ cut_lj[c] = CoeffCut(arg)
CoeffCross(arg) ==
  {c \in Cells : /\ CoeffRange(arg, 1)[1] <= c[1] /\ c[1] <= CoeffRange(arg, 1)[2]
                 /\ CoeffRange(arg, 2)[1] <= c[2] /\ c[2] <= CoeffRange(arg, 2)[2]}
CoeffUpper(arg) == {c \in CoeffCross(arg) : c[1] <= c[2]}

\* C1 as claimed: a coeff call that parsed marks and fills every (i,j) of the
\* cross product of its ranges, counts them all (4 for 1*2 x 1*2), and raises
\* the error only when the ranges select no pair.
C1_CoeffFillsCrossProduct ==
  (last.op = "coeff" /\ last.ret >= 0) =>
    /\ \A c \in CoeffCross(last.arg) : CoeffStored(last.arg, c)
    /\ last.ret = Cardinality(CoeffCross(last.arg))
    /\ halted => CoeffCross(last.arg) = {}

\* C1 amended: a coeff call that parsed marks and fills every (i,j) of the cross
\* product with i <= j, and counts those; for 1*2 x 1*2 the count is 3, the
\* pairs (1,1), (1,2), (2,2); the error is raised exactly when no pair of the
\* cross product has i <= j.
C1_CoeffFillsUpperPairs ==
  (last.op = "coeff" /\ last.ret >= 0) =>
    /\ \A c \in CoeffUpper(last.arg) : CoeffStored(last.arg, c)
    /\ last.ret = Cardinality(CoeffUpper(last.arg))
    /\ (last.arg[1] = "1*2" /\ last.arg[2] = "1*2") => last.ret = 3
    /\ halted <=> CoeffUpper(last.arg) = {}

C1_Witness ==
  /\ last.op = "coeff" /\ last.ret = 3
  /\ last.arg[1] = "1*2" /\ last.arg[2] = "1*2"
  /\ CoeffStored(last.arg, <<1, 2>>)
  /\ ~halted

\* the derived fields of (i,j) and (j,i) agree
DerivedSymmetric(c) ==
  LET d == <<c[2], c[1]>>
  IN  /\ cut_ljsq[c] = cut_ljsq[d]
      /\ lj1[c] = lj1[d] /\ lj2[c] = lj2[d] /\ lj3[c] = lj3[d] /\ lj4[c] = lj4[d]
      /\ offset[c] = offset[d]
\* the configured fields of (i,j) and (j,i) agree
ConfiguredSymmetric(c) ==
  LET d == <<c[2], c[1]>>
  IN  /\ (setflag[c] # 0) = (setflag[d] # 0)
      /\ epsilon[c] = epsilon[d] /\ sigma[c] = sigma[d] /\ cut_lj[c] = cut_lj[d]

\* C2 as claimed: once the tables are allocated, entry(i,j) equals entry(j,i)
\* in every field, in every state.
C2_TableSymmetricAlways ==
  allocated = 1 => \A c \in Cells : ConfiguredSymmetric(c) /\ DerivedSymmetric(c)

\* C2 amended: init_one(i,j), i <= j, leaves cut_lj squared, lj1..lj4 and offset
\* of (j,i) equal to those of (i,j), and settings, coeff and later init_one calls
\* keep them equal; the set flag, epsilon, sigma and cut_lj are kept in the
\* (i,j), i <= j, entry only.
C2_DerivedMirrored ==
  [][ \A c \in Cells :
        /\ (last'.op = "init_one" /\ last'.arg = c) => DerivedSymmetric(c)'
        /\ DerivedSymmetric(c) => DerivedSymmetric(c)' ]_vars

C2_Witness ==
  /\ last.op = "init_one" /\ last.arg = <<1, 2>>
  /\ setflag[<<1, 2>>] = 0
  /\ DerivedSymmetric(<<1, 2>>)
  /\ epsilon[<<1, 2>>] # epsilon[<<2, 1>>]
  /\ lj1[<<1, 2>>] > 0

\* C9 as claimed: a settings call on allocated tables leaves every explicitly
\* set pair (i,j), i <= j, i = j included, with cut_lj equal to the new global
\* LJ cutoff, and leaves cut_lj of the other pairs as stored.
C9_SettingsResetsSetCutoffs ==
  [][ (last'.op = "settings" /\ last'.ret = 0 /\ allocated = 1) =>
        \A c \in Cells : c[1] <= c[2] =>
          cut_lj'[c] = IF setflag[c] # 0 THEN cut_lj_global' ELSE cut_lj[c] ]_vars

\* the cache a calibration pass with kernel k derives from the current alpha,
\* cut_coul and qqrd2e; extra is the variant's term in e_self
CalibratedFor(k, extra) ==
  LET vf == CallUnshifted(k, cut_coul, alpha)
      es == vf[1] + FMul(vf[2], cut_coul)
  IN  /\ unshifted = k
      /\ cut_coulsq = FMul(cut_coul, cut_coul)
      /\ f_shift = vf[2]
      /\ e_shift = es
      /\ e_self = FDiv(FMul(-50, es + extra), qqrd2e)
Calibrated ==
  CASE unshifted_flag = 0 -> CalibratedFor("none", 0)
    [] unshifted_flag = 1 -> CalibratedFor("debye", alpha)
    [] unshifted_flag = 2 -> CalibratedFor("gauss", 0)
    [] unshifted_flag = 3 -> CalibratedFor("erfc", FMul(two_pis, alpha))

\* C3: right after init_style has run init_parameters, for the bound kernel of
\* whichever variant is selected and the current alpha and cut_coul, the
\* shifted Coulomb force prefactor*(f(r) - f_shift)*r and the shifted Coulomb
\* energy prefactor*(v(r) + r*f_shift - e_shift) are both 0 at r = cut_coul,
\* for every prefactor.
C3_ShiftedCoulombZeroAtCutoff ==
  last.op = "init_style" =>
    \A prefactor \in {-400, -200, 100, 200} :
      /\ coul_force(prefactor, cut_coul) = 0
      /\ coul_energy(prefactor, cut_coul) = 0

C3_Witness ==
  /\ last.op = "init_style"
  /\ unshifted = "debye"
  /\ f_shift > 0 /\ e_shift > f_shift
  /\ coul_energy(200, cut_coul \div 2) # 0
  /\ coul_energy(200, cut_coul) = 0

\* C4 as claimed: whenever compute or single evaluates pairs, the bound kernel
\* and cut_coulsq, f_shift, e_shift, e_self are those init_parameters derives
\* from the current alpha, cut_coul and variant.
C4_CacheCurrentAtEvaluation ==
  last.op \in {"compute", "single"} => Calibrated

\* C4 amended: init_style leaves the bound kernel and cut_coulsq, f_shift,
\* e_shift, e_self as init_parameters derives them from the current alpha,
\* cut_coul and variant, and coeff, compute, single and write_restart keep
\* them so; a settings call or a restore does not recalibrate, and an
\* evaluation that follows one without init_style in between uses the cache of
\* the earlier calibration.
C4_CacheCurrentSinceInitStyle ==
  [][ (last'.op = "init_style"
        \/ (Calibrated /\ last'.op \notin {"settings", "read_restart"}))
      => Calibrated' ]_vars

C4_Witness ==
  /\ last.op = "compute"
  /\ Calibrated
  /\ unshifted = "gauss"
  /\ Len(tally) > nlocal

\* the variant a settings argument list names with its last damp keyword, erfc
\* when it has none
DampNamed(arg) ==
  LET ks == {k \in 1..(Len(arg) - 1) : arg[k] = "damp"}
  IN  IF ks = {} THEN "erfc"
      ELSE arg[(CHOOSE k \in ks : \A m \in ks : m <= k) + 1]

\* C8 as claimed: after a successful settings call the selected variant is the
\* one its damp keyword names, and erfc when it has no damp keyword, whatever
\* earlier settings calls or a restore selected.
C8_SettingsSelectsNamedVariant ==
  (last.op = "settings" /\ last.ret = 0) =>
    KernelOf(unshifted_flag) = DampNamed(last.arg)

\* the self term of local particle i as the code tallies it
SelfTerm(i) ==
  [i |-> i, j |-> i, sb |-> 0, evdwl |-> 0,
   ecoul |-> FMul(FMul(e_self, FMul(qqrd2e, q[i])), FMul(qqrd2e, q[i])),
   fpair |-> 0]
\* the self term of local particle i with the value qqrd2e * q_i^2 * e_self
SelfTermLinear(i) ==
  [i |-> i, j |-> i, sb |-> 0, evdwl |-> 0,
   ecoul |-> FMul(FMul(FMul(qqrd2e, e_self), q[i]), q[i]),
   fpair |-> 0]
\* the entries of the tally that are attributed to one particle alone
SelfEntries == {k \in 1..Len(tally) : tally[k].i = tally[k].j}

\* C5 as claimed: a compute pass with energy accounting and self energy on
\* tallies for each local particle i exactly one self term, of value
\* qqrd2e * q_i^2 * e_self; with self energy off it tallies none.
C5_SelfTermLinearInConversion ==
  (last.op = "compute" /\ last.arg[1] # 0) =>
    IF self_flag # 0
    THEN /\ SelfEntries = 1..nlocal
         /\ \A i \in 0..(nlocal - 1) : tally[i + 1] = SelfTermLinear(i)
    ELSE SelfEntries = {}

\* C5 amended: a compute pass with energy accounting and self energy on
\* tallies for each local particle i exactly one self term, attributed to i
\* alone, of value e_self * (qqrd2e * q_i)^2: the charge conversion enters
\* squared, so that with the division in init_parameters one factor remains;
\* with self energy off it tallies none.
C5_SelfTermSquareOfConvertedCharge ==
  (last.op = "compute" /\ last.arg[1] # 0) =>
    IF self_flag # 0
    THEN /\ SelfEntries = 1..nlocal
         /\ \A i \in 0..(nlocal - 1) : tally[i + 1] = SelfTerm(i)
    ELSE SelfEntries = {}

C5_Witness ==
  /\ last.op = "compute" /\ last.arg[1] # 0
  /\ self_flag # 0
  /\ qqrd2e = 200
  /\ tally[1] = SelfTerm(0)
  /\ tally[1].ecoul < 0
  /\ tally[1] # SelfTermLinear(0)

\* the force the neighbor entries nl of one pass put on particle k: fpair*del
\* for each entry (k,j) inside the combined cutoff, and -fpair*del for each
\* entry (i,k) inside it when newton_pair is set or k is local
RECURSIVE PairSum(_, _)
PairSum(nl, k) ==
  IF nl = << >> THEN <<0, 0, 0>>
  ELSE
    LET i == nl[1][1]
        j == nl[1][2]
        del == VSub(x[i], x[j])
        rsq == Dot(del, del)
        inside == rsq < cutsq[<<type[i], type[j]>>]
        e == pair_eval(rsq, type[i], type[j], special_lj[nl[1][3]],
                       FMul(FMul(special_coul[nl[1][3]], FMul(qqrd2e, q[i])), q[j]))
        dv == VScale(del, e.fpair)
        own == IF inside /\ i = k THEN dv ELSE <<0, 0, 0>>
        opp == IF inside /\ j = k /\ (newton_pair # 0 \/ k < nlocal)
               THEN dv ELSE <<0, 0, 0>>
    IN  VAdd(VSub(own, opp), PairSum(Tail(nl), k))

\* C6: a compute pass adds to the force of every particle k, on top of what it
\* held, fpair*del for each neighbor pair (k,j) inside the combined cutoff and
\* -fpair*del for each pair (i,k) inside it if and only if newton_pair is set
\* or k is local; pairs at or beyond the cutoff add nothing; positions, charges
\* and types are not written.
C6_ForceAccumulation ==
  [][ last'.op = "compute" =>
        /\ \A k \in AtomIds : f'[k] = VAdd(f[k], PairSum(NeighList(last'.arg[2]), k))
        /\ x' = x /\ q' = q /\ type' = type ]_vars

C6_Witness ==
  /\ last.op = "compute"
  /\ newton_pair = 0
  /\ f[0] # <<0, 0, 0>> /\ f[1] # <<0, 0, 0>>
  /\ f[nlocal] = <<0, 0, 0>>
  /\ Dot(VSub(x[0], x[nlocal]), VSub(x[0], x[nlocal])) >= cutsq[<<type[0], type[nlocal]>>]
  /\ PairSum(NeighList(last.arg[2]), 1) # <<0, 0, 0>>

\* C10 as claimed: a neighbor pair whose LJ scale factor is 0 is tallied with
\* zero LJ energy by compute, whatever the offset setting.
C10_ExcludedPairHasNoLJEnergy ==
  last.op = "compute" =>
    \A k \in 1..Len(tally) : special_lj[tally[k].sb] = 0 => tally[k].evdwl = 0

\* the tables init_one derives for every pair from the configured ones
Refinalized == InitAll(Tab, UpperPairs)

\* C7: read_restart on a new instance consumes exactly the fields write_restart
\* wrote, in their order and with epsilon, sigma, cut_lj present only behind a
\* set flag; it restores alpha, both cutoffs, the offset, mix, tail and self
\* flags and the variant, and the set flags; and init_one for every pair then
\* derives the lj1..lj4 and offset the writing instance held, when that
\* instance had derived its own from the configuration it wrote.
C7_RestartRoundTrip ==
  last.op = "read_restart" =>
    /\ last.ret = Len(file)
    /\ write_restart_settings = snap[1].settings
    /\ \A c \in Cells : c[1] <= c[2] => setflag[c] = snap[1].setflag[c]
    /\ snap[1].finalized =>
         /\ Refinalized.lj1 = snap[1].lj1 /\ Refinalized.lj2 = snap[1].lj2
         /\ Refinalized.lj3 = snap[1].lj3 /\ Refinalized.lj4 = snap[1].lj4
         /\ Refinalized.offset = snap[1].offset

C7_Witness ==
  /\ last.op = "read_restart"
  /\ snap[1].finalized
  /\ setflag[<<1, 2>>] = 0 /\ setflag[<<1, 1>>] # 0
  /\ epsilon[<<1, 1>>] # epsilon[<<2, 2>>]
  /\ unshifted_flag = 2
  /\ lj1 # snap[1].lj1
  /\ Refinalized.lj1 = snap[1].lj1
  /\ snap[1].lj1[<<1, 2>>] > 0

====
